---- MODULE Spec2Model ----
(***************************************************************************)
(* Bilker: the chunking, generation-request and batch-coordination core.   *)
(*                                                                         *)
(*   SpecChunker  DocumentChunker.chunk_text       (src/process_data.py)   *)
(*   SpecLLM      ChunkProcessor.call_llm          (src/chunk_processor.py)*)
(*   Spec         ChunkProcessor.process_all_chunks, find_unprocessed_     *)
(*                chunks, process_chunk_file       (src/chunk_processor.py)*)
(*   SpecRun      one run of process_all_chunks, run to its end            *)
(*   SpecRerun    process_all_chunks run after run, each formatted file    *)
(*                absent, unparseable or complete at the start             *)
(*   SpecDoc      one ChunkProcessor.process_chunk_file call               *)
(*   SpecClean    ChunkProcessor._clean_text       (src/chunk_processor.py)*)
(*   SpecGate     ChunkProcessor._validate_qa_pair (src/chunk_processor.py)*)
(*   SpecParser   ChunkProcessor.parse_qa_response (src/chunk_processor.py)*)
(*   SpecPipe     process_chunk_file with call_llm and parse_qa_response   *)
(*                as steps of their own                                    *)
(*                                                                         *)
(* Texts are sequences of one-character strings.                           *)
(***************************************************************************)
EXTENDS Integers, Sequences, FiniteSets, TLC

VARIABLES
    \* DocumentChunker.chunk_text
    text,             \* the text argument
    max_chunk_size,   \* config.max_chunk_size
    overlap_size,     \* config.overlap_size
    chunker_pc,       \* "call" before the call, "done" after it
    chunker_result,   \* what the call produced
    \* ChunkProcessor.call_llm
    max_retries,      \* the max_retries argument
    attempt,          \* the loop variable of range(max_retries)
    llm_pc,           \* "loop", "returned", "raised"
    llm_calls,        \* requests.post calls issued so far
    llm_sleeps,       \* time.sleep(2) calls so far
    llm_history,      \* what the backend did at each call, in order
    llm_result,       \* the returned string
    \* ChunkProcessor.process_all_chunks and the files it works on
    chunk_files,      \* processed/chunks/<id>_chunks.json, per document
    formatted,        \* processed/formatted/<id>_formatted.json, per document
    stats,            \* self.stats
    pc,               \* where process_all_chunks is
    unprocessed,      \* the list find_unprocessed_chunks returned
    doc_idx,          \* position of the for loop over unprocessed_chunks
    chunk_idx,        \* position of the for loop over chunks
    all_qa_pairs,     \* all_qa_pairs of the document being processed
    run,              \* number of the process (1 = first run)
    probe_ok,         \* whether the liveness probe of this run passed
    prev_probe_ok,    \* whether the liveness probe of the previous run passed
    gen_log,          \* what happened to each visited chunk of the document
    llm_invocations,  \* call_llm calls of this run
    writes,           \* formatted files opened for writing in this run
    fault,            \* the exception process_chunk_file caught, if any
    doc_result,       \* what process_chunk_file returned
    prev_failed,      \* stats['failed'] when the previous run ended
    \* ChunkProcessor._clean_text
    clean_arg,        \* the text argument
    clean_pc,         \* "call", "done" (cleaned once), "again" (cleaned twice)
    cleaned,          \* the successive results, each the clean of the one before
    \* ChunkProcessor._validate_qa_pair
    question,         \* the question argument
    answer,           \* the answer argument
    facts,            \* how the two arguments were put together
    gate_pc,          \* "call" before the call, "done" after it
    gate_result,      \* the returned boolean
    \* ChunkProcessor.parse_qa_response
    response,         \* the response argument
    response_parts,   \* the preamble and segments the response was built from
    parser_pc,        \* "call" before the call, "done" after it
    parser_result     \* the returned list

chunkerVars == <<text, max_chunk_size, overlap_size, chunker_pc, chunker_result>>

llmVars == <<max_retries, attempt, llm_pc, llm_calls, llm_sleeps, llm_history,
             llm_result>>

batchVars == <<chunk_files, formatted, stats, pc, unprocessed, doc_idx, chunk_idx,
               all_qa_pairs, run, probe_ok, prev_probe_ok, gen_log, llm_invocations,
               writes, fault, doc_result, prev_failed>>

cleanVars == <<clean_arg, clean_pc, cleaned>>

gateVars == <<question, answer, facts, gate_pc, gate_result>>

parserVars == <<response, response_parts, parser_pc, parser_result>>

textVars == <<cleanVars, gateVars, parserVars>>

vars == <<chunkerVars, llmVars, batchVars, textVars>>

----------------------------------------------------------------------------
(* Bounds of the model *)

MaxTextLen == 7
MaxChunkSize == 3
MaxOverlap == 3
MaxRetriesArg == 3
MaxChunks == 3
MaxBatchChunks == 1
MaxPairs == 1
MaxRuns == 2
MaxCleanLen == 4
MaxSegments == 2

----------------------------------------------------------------------------
(* Strings *)

Whitespace == {" ", "\n", "\t"}

ChunkerAlphabet == {"a", "b", " "}

Min(a, b) == IF a <= b THEN a ELSE b

\* every sequence over S of length at most n
SeqsUpTo(S, n) == UNION {[1..k -> S] : k \in 0..n}

\* Python s[lo:hi] for 0 <= lo, on a sequence (0-based, hi exclusive, clipped)
Slice(s, lo, hi) == SubSeq(s, lo + 1, Min(hi, Len(s)))

\* the least element of a non-empty set of integers
MinOf(S) == CHOOSE i \in S : \A j \in S : i <= j

RECURSIVE LStrip(_)
LStrip(s) == IF s # <<>> /\ Head(s) \in Whitespace THEN LStrip(Tail(s)) ELSE s

RECURSIVE Split(_)
\* str.split(): the maximal runs of non-whitespace characters, in order
\* (the first word of the text, then the words of what follows it)
Split(s) ==
    LET t == LStrip(s)
    IN  IF t = <<>> THEN <<>>
        ELSE LET blanks == {i \in 1..Len(t) : t[i] \in Whitespace}
                 e      == IF blanks = {} THEN Len(t) + 1 ELSE MinOf(blanks)
             IN  <<SubSeq(t, 1, e - 1)>> \o Split(SubSeq(t, e, Len(t)))

RECURSIVE RStrip(_)
RStrip(s) ==
    IF s # <<>> /\ s[Len(s)] \in Whitespace THEN RStrip(SubSeq(s, 1, Len(s) - 1)) ELSE s

\* str.strip()
Strip(s) == RStrip(LStrip(s))

\* n copies of character c
Repeat(c, n) == [k \in 1..n |-> c]

RECURSIVE Join(_)
\* ' '.join(words)
Join(words) ==
    IF words = <<>> THEN <<>>
    ELSE IF Len(words) = 1 THEN words[1]
    ELSE words[1] \o <<" ">> \o Join(Tail(words))

----------------------------------------------------------------------------
(* DocumentChunker.chunk_text *)

\* the step of range(0, len(words), chunk_size - overlap)
StrideNoOverlap(chunk_size, overlap) == chunk_size

Stride(chunk_size, overlap) == chunk_size - overlap

SingleChunkTestStrict(nwords, chunk_size) == nwords < chunk_size

\* len(words) <= self.config.max_chunk_size
SingleChunkTest(nwords, chunk_size) == nwords <= chunk_size

\* the values of range(0, stop, step) for step > 0, as a sequence
RangeStarts(stop, step) ==
    [k \in 1..((stop + step - 1) \div step) |-> (k - 1) * step]

OverlapEndInclusive(i, chunk_size, nwords) == i + chunk_size <= nwords

\* 'overlap_end': i + chunk_size < len(words)
OverlapEnd(i, chunk_size, nwords) == i + chunk_size < nwords

WindowChunk(words, i, k, chunk_size) ==
    [text          |-> Join(Slice(words, i, i + chunk_size)),
     chunk_id      |-> k - 1,
     total_chunks  |-> -1,
     overlap_start |-> i > 0,
     overlap_end   |-> OverlapEnd(i, chunk_size, Len(words))]

\* the second pass: chunk['total_chunks'] = total
Backfill(chunks) ==
    [k \in 1..Len(chunks) |-> [chunks[k] EXCEPT !.total_chunks = Len(chunks)]]

\* the whole call; status "ValueError" is range() refusing a zero step
chunk_text(t, chunk_size, overlap) ==
    LET words == Split(t)
        step  == Stride(chunk_size, overlap)
    IN  IF SingleChunkTest(Len(words), chunk_size)
        THEN [status |-> "returned",
              chunks |-> <<[text |-> t, chunk_id |-> 0, total_chunks |-> 1]>>]
        ELSE IF step = 0
        THEN [status |-> "ValueError", chunks |-> <<>>]
        ELSE IF step < 0
        THEN [status |-> "returned", chunks |-> <<>>]
        ELSE LET starts == RangeStarts(Len(words), step)
             IN  [status |-> "returned",
                  chunks |-> Backfill([k \in 1..Len(starts) |->
                                 WindowChunk(words, starts[k], k, chunk_size)])]

NoResult == [status |-> "none", chunks |-> <<>>]

ChunkerStart ==
    /\ text \in SeqsUpTo(ChunkerAlphabet, MaxTextLen)
    /\ max_chunk_size \in 1..MaxChunkSize
    /\ overlap_size \in 0..MaxOverlap
    /\ chunker_pc = "call"
    /\ chunker_result = NoResult

ChunkerIdle ==
    /\ text = <<>>
    /\ max_chunk_size = 0
    /\ overlap_size = 0
    /\ chunker_pc = "idle"
    /\ chunker_result = NoResult

ChunkText ==
    /\ chunker_pc = "call"
    /\ chunker_result' = chunk_text(text, max_chunk_size, overlap_size)
    /\ chunker_pc' = "done"
    /\ UNCHANGED <<text, max_chunk_size, overlap_size>>
    /\ UNCHANGED <<llmVars, batchVars, textVars>>

----------------------------------------------------------------------------
(* ChunkProcessor.call_llm *)

\* len(result) > 50
MinResponseLen == 50

\* What one requests.post call and the decoding of its reply can meet:
\*   raise   requests.post raises (connection refused, timeout)
\*   status  a reply with a status other than 200
\*   body    a 200 reply whose body is not JSON, is JSON but no object, has no
\*           'response' key, has a 'response' that is no string, or has text
ResponseTexts ==
    { <<>>,
      <<" ", "\n">>,
      Repeat("x", MinResponseLen),
      <<" ">> \o Repeat("x", MinResponseLen) \o <<"\n">>,
      Repeat("x", MinResponseLen + 1),
      <<" ">> \o Repeat("x", MinResponseLen + 1) \o <<" ">> }

BackendOutcomes ==
    {[kind |-> "raise", exc |-> e] : e \in {"ConnectionError", "Timeout"}}
    \cup {[kind |-> "status", code |-> 500]}
    \cup {[kind |-> "body", body |-> b] :
              b \in {"not_json", "not_object", "no_response_key", "response_not_string"}}
    \cup {[kind |-> "body", body |-> "text", text |-> t] : t \in ResponseTexts}

CatchesRequestErrorsOnly(exc) == exc \in {"ConnectionError", "Timeout"}

\* except Exception as e
Catches(exc) == TRUE

\* if result and len(result) > 50
Accepts(result) == result # <<>> /\ Len(result) > MinResponseLen

RetryWhileAtMost(n, retries) == n <= retries

\* for attempt in range(max_retries): the loop body runs for attempt n
InRange(n, retries) == n < retries

\* The body of the try block for one backend outcome:
\* [end |-> "return", value |-> text], [end |-> "fallthrough"] or
\* [end |-> "exception", exc |-> class]
TryBlock(o) ==
    IF o.kind = "raise" THEN [end |-> "exception", exc |-> o.exc]
    ELSE IF o.kind = "status" THEN [end |-> "fallthrough"]
    ELSE IF o.body = "not_json" THEN [end |-> "exception", exc |-> "JSONDecodeError"]
    ELSE IF o.body \in {"not_object", "response_not_string"}
         THEN [end |-> "exception", exc |-> "AttributeError"]
    ELSE LET result == Strip(IF o.body = "no_response_key" THEN <<>> ELSE o.text)
         IN  IF Accepts(result)
             THEN [end |-> "return", value |-> result]
             ELSE [end |-> "fallthrough"]

\* One pass of the loop body: "return", "retry" (warning logged, next attempt)
\* or "raise" (an exception leaves call_llm)
AttemptEnd(o) ==
    LET t == TryBlock(o)
    IN  IF t.end = "exception"
        THEN IF Catches(t.exc) THEN "retry" ELSE "raise"
        ELSE IF t.end = "return" THEN "return" ELSE "retry"

LLMStart ==
    /\ max_retries \in 0..MaxRetriesArg
    /\ attempt = 0
    /\ llm_pc = "loop"
    /\ llm_calls = 0
    /\ llm_sleeps = 0
    /\ llm_history = <<>>
    /\ llm_result = <<>>

LLMIdle ==
    /\ max_retries = 0
    /\ attempt = 0
    /\ llm_pc = "idle"
    /\ llm_calls = 0
    /\ llm_sleeps = 0
    /\ llm_history = <<>>
    /\ llm_result = <<>>

\* one iteration of the for loop, the backend answering with o
LLMAttempt(o) ==
    /\ llm_pc = "loop"
    /\ InRange(attempt, max_retries)
    /\ llm_calls' = llm_calls + 1
    /\ llm_history' = Append(llm_history, o)
    /\ LET e == AttemptEnd(o)
       IN  /\ llm_pc' = CASE e = "return" -> "returned"
                           [] e = "raise"  -> "raised"
                           [] OTHER        -> "loop"
           /\ llm_result' = IF e = "return" THEN TryBlock(o).value ELSE llm_result
           /\ attempt' = IF e = "retry" THEN attempt + 1 ELSE attempt
           /\ llm_sleeps' = IF e = "retry" /\ attempt < max_retries - 1
                            THEN llm_sleeps + 1 ELSE llm_sleeps
    /\ UNCHANGED max_retries
    /\ UNCHANGED <<chunkerVars, batchVars, textVars>>

\* the loop is over: logger.error(...); return ""
LLMExhausted ==
    /\ llm_pc = "loop"
    /\ ~InRange(attempt, max_retries)
    /\ llm_pc' = "returned"
    /\ llm_result' = <<>>
    /\ UNCHANGED <<max_retries, attempt, llm_calls, llm_sleeps, llm_history>>
    /\ UNCHANGED <<chunkerVars, batchVars, textVars>>

LLMNext ==
    \/ \E o \in BackendOutcomes : LLMAttempt(o)
    \/ LLMExhausted


\* call_llm as one call: the backend answers the successive requests with
\* outs[1], outs[2], ...; [end |-> "returned", value |-> string] or
\* [end |-> "raised"]
RECURSIVE call_llm_from(_, _, _)
call_llm_from(outs, n, retries) ==
    IF ~InRange(n, retries) \/ n >= Len(outs)
    THEN [end |-> "returned", value |-> <<>>]
    ELSE LET e == AttemptEnd(outs[n + 1])
         IN  IF e = "return"
             THEN [end |-> "returned", value |-> TryBlock(outs[n + 1]).value]
             ELSE IF e = "raise" THEN [end |-> "raised"]
             ELSE call_llm_from(outs, n + 1, retries)

call_llm(outs, retries) == call_llm_from(outs, 0, retries)

----------------------------------------------------------------------------
(* ChunkProcessor: find_unprocessed_chunks, process_chunk_file,             *)
(* process_all_chunks                                                       *)

\* def call_llm(self, prompt, max_retries: int = 3)
DefaultMaxRetries == 3

\* if not text or len(text) < 50
MinChunkTextLen == 50

Docs == {"d1", "d2"}

\* A chunk entry of a chunk file: an object whose 'text' is body characters
\* between pad blanks on either side, or an entry that is no object with a
\* string 'text' (malformed: chunk.get or .strip() raises)
ChunkEntry(bad, p, b) == [malformed |-> bad, pad |-> p, body |-> b]

MalformedEntry == ChunkEntry(TRUE, 0, 0)

ShortEntry == ChunkEntry(FALSE, 1, MinChunkTextLen - 1)

LongEntry == ChunkEntry(FALSE, 0, MinChunkTextLen)

ChunkKinds == {ShortEntry, LongEntry, MalformedEntry}

\* chunk.get('text', '') of a well-formed entry
EntryText(e) == Repeat(" ", e.pad) \o Repeat("x", e.body) \o Repeat(" ", e.pad)

SkipsChunkUpTo(t) == LET stripped == Strip(t) IN stripped = <<>> \/ Len(stripped) <= MinChunkTextLen

\* text = chunk.get('text', '').strip(); if not text or len(text) < 50
SkipsChunk(t) == LET stripped == Strip(t) IN stripped = <<>> \/ Len(stripped) < MinChunkTextLen

\* A chunk file: unreadable or no JSON object ("corrupt"), else its 'chunks',
\* at most n of them
ChunkFiles(n) ==
    {[kind |-> "corrupt", chunks |-> <<>>]}
    \cup {[kind |-> "object", chunks |-> c] : c \in SeqsUpTo(ChunkKinds, n)}

\* An accepted pair, named by the chunk it came from and its position
Pair(i, j) == [chunk |-> i, n |-> j]

\* A formatted file: absent, present but open() or json.load raises, JSON that
\* is no object, or an object with or without a 'qa_pairs' list
NoFile == [kind |-> "missing", has_qa_pairs |-> FALSE, qa_pairs |-> <<>>,
           qa_pairs_generated |-> 0]

BadFile(k) == [kind |-> k, has_qa_pairs |-> FALSE, qa_pairs |-> <<>>,
               qa_pairs_generated |-> 0]

ObjectFile(has, pairs) == [kind |-> "object", has_qa_pairs |-> has, qa_pairs |-> pairs,
                           qa_pairs_generated |-> Len(pairs)]

FormattedFiles ==
    {NoFile, BadFile("unparseable"), BadFile("not_object"),
     ObjectFile(FALSE, <<>>), ObjectFile(TRUE, <<>>), ObjectFile(TRUE, <<Pair(0, 0)>>)}

FreshStats ==
    [chunks_found |-> 0, already_processed |-> 0, successfully_processed |-> 0,
     failed |-> 0, total_qa_pairs |-> 0, quality_filtered |-> 0,
     avg_pairs_per_chunk |-> 0]

HasSeveralPairs(qa_pairs) == Len(qa_pairs) > 1

\* if len(qa_pairs) > 0
HasPairs(qa_pairs) == Len(qa_pairs) > 0

NeedsProcessingUnlessExists(f) == f.kind = "missing"

\* needs_processing of find_unprocessed_chunks for formatted file f
NeedsProcessing(f) ==
    IF f.kind = "missing" THEN TRUE
    ELSE IF f.kind \in {"unparseable", "not_object"} THEN TRUE
    ELSE ~HasPairs(IF f.has_qa_pairs THEN f.qa_pairs ELSE <<>>)

RECURSIVE FilterSeq(_, _)
FilterSeq(s, keep) ==
    IF s = <<>> THEN <<>>
    ELSE IF Head(s) \in keep THEN <<Head(s)>> \o FilterSeq(Tail(s), keep)
    ELSE FilterSeq(Tail(s), keep)

\* the orders in which glob can list the chunk files
GlobOrders == {o \in [1..Cardinality(Docs) -> Docs] : \A d \in Docs : \E i \in DOMAIN o : o[i] = d}

\* find_unprocessed_chunks over the files listed in order o
find_unprocessed_chunks(o, files) ==
    FilterSeq(o, {d \in Docs : NeedsProcessing(files[d])})

\* a new ChunkProcessor, about to run process_all_chunks
BatchStart ==
    /\ chunk_files \in [Docs -> ChunkFiles(MaxBatchChunks)]
    /\ formatted \in [Docs -> FormattedFiles]
    /\ stats = FreshStats
    /\ pc = "probe"
    /\ unprocessed = <<>>
    /\ doc_idx = 0
    /\ chunk_idx = 0
    /\ all_qa_pairs = <<>>
    /\ run = 1
    /\ probe_ok = FALSE
    /\ prev_probe_ok = FALSE
    /\ gen_log = <<>>
    /\ llm_invocations = 0
    /\ writes = 0
    /\ fault = "none"
    /\ doc_result = "none"
    /\ prev_failed = 0

\* a chunk file with two chunks that are both sent to the backend
TwoLongChunks == [kind |-> "object", chunks |-> <<LongEntry, LongEntry>>]

\* a new ChunkProcessor, about to run process_all_chunks once, each formatted
\* file absent, unparseable or complete
RunStart ==
    /\ chunk_files \in [Docs -> ChunkFiles(MaxBatchChunks) \cup {TwoLongChunks}]
    /\ formatted \in [Docs -> {NoFile, BadFile("unparseable"),
                                ObjectFile(TRUE, <<Pair(0, 0)>>)}]
    /\ stats = FreshStats
    /\ pc = "probe"
    /\ unprocessed = <<>>
    /\ doc_idx = 0
    /\ chunk_idx = 0
    /\ all_qa_pairs = <<>>
    /\ run = 1
    /\ probe_ok = FALSE
    /\ prev_probe_ok = FALSE
    /\ gen_log = <<>>
    /\ llm_invocations = 0
    /\ writes = 0
    /\ fault = "none"
    /\ doc_result = "none"
    /\ prev_failed = 0

\* a new ChunkProcessor, about to run process_chunk_file on document d1
DocStart ==
    /\ chunk_files \in {[d \in Docs |-> IF d = "d1" THEN f ELSE [kind |-> "corrupt", chunks |-> <<>>]] :
                            f \in ChunkFiles(MaxChunks)}
    /\ formatted \in {[d \in Docs |-> IF d = "d1" THEN f ELSE NoFile] : f \in FormattedFiles}
    /\ stats = FreshStats
    /\ pc = "load"
    /\ unprocessed = <<"d1">>
    /\ doc_idx = 1
    /\ chunk_idx = 0
    /\ all_qa_pairs = <<>>
    /\ run = 1
    /\ probe_ok = FALSE
    /\ prev_probe_ok = FALSE
    /\ gen_log = <<>>
    /\ llm_invocations = 0
    /\ writes = 0
    /\ fault = "none"
    /\ doc_result = "none"
    /\ prev_failed = 0

BatchIdle ==
    /\ chunk_files = [d \in Docs |-> [kind |-> "corrupt", chunks |-> <<>>]]
    /\ formatted = [d \in Docs |-> NoFile]
    /\ stats = FreshStats
    /\ pc = "idle"
    /\ unprocessed = <<>>
    /\ doc_idx = 0
    /\ chunk_idx = 0
    /\ all_qa_pairs = <<>>
    /\ run = 0
    /\ probe_ok = FALSE
    /\ prev_probe_ok = FALSE
    /\ gen_log = <<>>
    /\ llm_invocations = 0
    /\ writes = 0
    /\ fault = "none"
    /\ doc_result = "none"
    /\ prev_failed = 0

CurrentDoc == unprocessed[doc_idx]

CurrentChunks == chunk_files[CurrentDoc].chunks

\* what does not change while process_all_chunks works through its list
runFrame == <<chunk_files, unprocessed, doc_idx, run, probe_ok, prev_probe_ok,
              prev_failed>>

\* unprocessed_chunks = self.find_unprocessed_chunks(), then the early return
\* on an empty list or the start of the loop over the list
FindStep ==
    \E o \in GlobOrders :
        /\ unprocessed' = find_unprocessed_chunks(o, formatted)
        /\ stats' = [stats EXCEPT
               !.chunks_found = @ + Len(o),
               !.already_processed = @ + (Len(o) - Len(unprocessed'))]
        /\ IF unprocessed' = <<>>
           THEN pc' = "done" /\ doc_idx' = 0
           ELSE pc' = "load" /\ doc_idx' = 1

AfterProbeFailureGoOn == "go_on"

\* logger.error("Cannot connect to Ollama. ..."); return
AfterProbeFailure == "return"

\* requests.get(.../api/tags) raises or answers with a status other than 200
ProbeFails ==
    /\ pc = "probe"
    /\ probe_ok' = FALSE
    /\ IF AfterProbeFailure = "return"
       THEN pc' = "done" /\ UNCHANGED <<stats, unprocessed, doc_idx>>
       ELSE FindStep
    /\ UNCHANGED <<chunk_files, formatted, chunk_idx, all_qa_pairs, run, prev_probe_ok,
                   gen_log, llm_invocations, writes, fault, doc_result, prev_failed>>
    /\ UNCHANGED <<chunkerVars, llmVars, textVars>>

\* the probe answers 200; find_unprocessed_chunks runs
FindUnprocessed ==
    /\ pc = "probe"
    /\ probe_ok' = TRUE
    /\ FindStep
    /\ UNCHANGED <<chunk_files, formatted, chunk_idx, all_qa_pairs, run, prev_probe_ok,
                   gen_log, llm_invocations, writes, fault, doc_result, prev_failed>>
    /\ UNCHANGED <<chunkerVars, llmVars, textVars>>

DocCatchesIOErrorsOnly(e) == e \in {"chunk_file", "write_open", "write_dump"}

\* except Exception as e
DocCatches(e) == TRUE

\* exception e is raised inside the try block of process_chunk_file: the
\* except branch logs it, self.stats['failed'] += 1, return False; an
\* exception the branch does not catch leaves process_chunk_file and, with
\* nothing to catch it in process_all_chunks, ends the run ("raised")
Except(e) ==
    /\ fault' = e
    /\ IF DocCatches(e)
       THEN /\ stats' = [stats EXCEPT !.failed = @ + 1]
            /\ doc_result' = "False"
            /\ pc' = "returned"
       ELSE /\ pc' = "raised"
            /\ UNCHANGED <<stats, doc_result>>

\* process_chunk_file: open and json.load the chunk file, read 'chunks'
LoadChunkFile ==
    /\ pc = "load"
    /\ IF chunk_files[CurrentDoc].kind = "corrupt"
       THEN Except("chunk_file")
       ELSE /\ pc' = "chunks"
            /\ UNCHANGED <<stats, fault, doc_result>>
    /\ UNCHANGED <<formatted, chunk_idx, all_qa_pairs, gen_log, llm_invocations, writes>>
    /\ UNCHANGED runFrame
    /\ UNCHANGED <<chunkerVars, llmVars, textVars>>

\* the generation backend as call_llm meets it for one chunk: the first k
\* requests fail, every later one is answered with a usable text
ChunkOutcomes(k) ==
    [i \in 1..DefaultMaxRetries |->
        IF i <= k
        THEN [kind |-> "raise", exc |-> "ConnectionError"]
        ELSE [kind |-> "body", body |-> "text", text |-> Repeat("x", MinResponseLen + 1)]]

LoopDoneAfterFirst(i, n) == i >= Min(1, n)

\* for i, chunk in enumerate(chunks): the loop is over after n chunks
LoopDone(i, n) == i >= n

PairsCountedOnce(pairs) == 1

\* self.stats['total_qa_pairs'] += len(all_qa_pairs)
PairsCounted(pairs) == Len(pairs)

AlwaysSaves(pairs) == TRUE

HasSeveralResults(pairs) == Len(pairs) > 1

\* if all_qa_pairs
HasResults(pairs) == pairs # <<>>

\* one iteration of the chunk loop, chunk number chunk_idx (0-based):
\* if not text or len(text) < 50: continue
ChunkSkipped ==
    /\ pc = "chunks"
    /\ ~LoopDone(chunk_idx, Len(CurrentChunks))
    /\ ~CurrentChunks[chunk_idx + 1].malformed
    /\ SkipsChunk(EntryText(CurrentChunks[chunk_idx + 1]))
    /\ gen_log' = Append(gen_log, [chunk |-> chunk_idx, what |-> "skipped", pairs |-> <<>>])
    /\ chunk_idx' = chunk_idx + 1
    /\ UNCHANGED <<formatted, stats, pc, all_qa_pairs, llm_invocations, writes, fault,
                   doc_result>>
    /\ UNCHANGED runFrame
    /\ UNCHANGED <<chunkerVars, llmVars, textVars>>

\* chunk.get(...) or .strip() raises: the except branch ends the document
ChunkMalformed ==
    /\ pc = "chunks"
    /\ ~LoopDone(chunk_idx, Len(CurrentChunks))
    /\ CurrentChunks[chunk_idx + 1].malformed
    /\ Except("chunk_entry")
    /\ UNCHANGED <<formatted, chunk_idx, all_qa_pairs, gen_log, llm_invocations, writes>>
    /\ UNCHANGED runFrame
    /\ UNCHANGED <<chunkerVars, llmVars, textVars>>

AfterNoResponseBreak == "break"

\* if not response: ...; continue
AfterNoResponse == "continue"

\* the chunk is sent: call_llm, then parse_qa_response on a non-empty response;
\* the response is represented by the n pairs parse_qa_response accepts from it
ChunkGenerated(k, n) ==
    /\ pc = "chunks"
    /\ ~LoopDone(chunk_idx, Len(CurrentChunks))
    /\ ~CurrentChunks[chunk_idx + 1].malformed
    /\ ~SkipsChunk(EntryText(CurrentChunks[chunk_idx + 1]))
    /\ llm_invocations' = llm_invocations + 1
    /\ LET r == call_llm(ChunkOutcomes(k), DefaultMaxRetries)
           pairs == [j \in 1..n |-> Pair(chunk_idx, j)]
       IN  IF r.end = "raised"
           THEN /\ Except("call_llm")
                /\ UNCHANGED <<chunk_idx, all_qa_pairs, gen_log>>
           ELSE IF r.value = <<>>
           THEN /\ n = 0
                /\ gen_log' = Append(gen_log,
                       [chunk |-> chunk_idx, what |-> "no_response", pairs |-> <<>>])
                /\ chunk_idx' = IF AfterNoResponse = "continue"
                                THEN chunk_idx + 1 ELSE Len(CurrentChunks)
                /\ UNCHANGED <<stats, pc, all_qa_pairs, fault, doc_result>>
           ELSE /\ gen_log' = Append(gen_log,
                       [chunk |-> chunk_idx, what |-> "response", pairs |-> pairs])
                /\ all_qa_pairs' = all_qa_pairs \o pairs
                /\ chunk_idx' = chunk_idx + 1
                /\ UNCHANGED <<stats, pc, fault, doc_result>>
    /\ UNCHANGED <<formatted, writes>>
    /\ UNCHANGED runFrame
    /\ UNCHANGED <<chunkerVars, llmVars, textVars>>

\* after the loop, all_qa_pairs is empty: stats['failed'] += 1, return False
SaveNothing ==
    /\ pc = "chunks"
    /\ LoopDone(chunk_idx, Len(CurrentChunks))
    /\ ~HasResults(all_qa_pairs)
    /\ stats' = [stats EXCEPT !.failed = @ + 1]
    /\ doc_result' = "False"
    /\ pc' = "returned"
    /\ UNCHANGED <<formatted, chunk_idx, all_qa_pairs, gen_log, llm_invocations, writes,
                   fault>>
    /\ UNCHANGED runFrame
    /\ UNCHANGED <<chunkerVars, llmVars, textVars>>

\* after the loop, all_qa_pairs is non-empty: the formatted file is written,
\* the counters are raised, return True
SaveResults ==
    /\ pc = "chunks"
    /\ LoopDone(chunk_idx, Len(CurrentChunks))
    /\ HasResults(all_qa_pairs)
    /\ formatted' = [formatted EXCEPT ![CurrentDoc] = ObjectFile(TRUE, all_qa_pairs)]
    /\ stats' = [stats EXCEPT !.successfully_processed = @ + 1,
                              !.total_qa_pairs = @ + PairsCounted(all_qa_pairs)]
    /\ doc_result' = "True"
    /\ pc' = "returned"
    /\ writes' = writes + 1
    /\ UNCHANGED <<chunk_idx, all_qa_pairs, gen_log, llm_invocations, fault>>
    /\ UNCHANGED runFrame
    /\ UNCHANGED <<chunkerVars, llmVars, textVars>>

\* open(formatted_file, 'w') raises (file untouched), or json.dump raises
\* after the file was truncated (file left unparseable)
SaveFails(truncated) ==
    /\ pc = "chunks"
    /\ LoopDone(chunk_idx, Len(CurrentChunks))
    /\ HasResults(all_qa_pairs)
    /\ formatted' = IF truncated
                    THEN [formatted EXCEPT ![CurrentDoc] = BadFile("unparseable")]
                    ELSE formatted
    /\ writes' = IF truncated THEN writes + 1 ELSE writes
    /\ Except(IF truncated THEN "write_dump" ELSE "write_open")
    /\ UNCHANGED <<chunk_idx, all_qa_pairs, gen_log, llm_invocations>>
    /\ UNCHANGED runFrame
    /\ UNCHANGED <<chunkerVars, llmVars, textVars>>

\* process_chunk_file has returned: the for loop of process_all_chunks takes
\* the next file of the list, or ends
LoopAdvance ==
    /\ pc = "returned"
    /\ chunk_idx' = 0
    /\ all_qa_pairs' = <<>>
    /\ gen_log' = <<>>
    /\ fault' = "none"
    /\ doc_result' = "none"
    /\ IF doc_idx < Len(unprocessed)
       THEN doc_idx' = doc_idx + 1 /\ pc' = "load"
       ELSE doc_idx' = doc_idx /\ pc' = "done"
    /\ UNCHANGED <<chunk_files, formatted, stats, unprocessed, run, probe_ok,
                   prev_probe_ok, llm_invocations, writes, prev_failed>>
    /\ UNCHANGED <<chunkerVars, llmVars, textVars>>

\* the program is started again: a new ChunkProcessor over the same files
NewProcess ==
    /\ pc = "done"
    /\ run < MaxRuns
    /\ run' = run + 1
    /\ prev_failed' = stats.failed
    /\ prev_probe_ok' = probe_ok
    /\ probe_ok' = FALSE
    /\ stats' = FreshStats
    /\ llm_invocations' = 0
    /\ writes' = 0
    /\ pc' = "probe"
    /\ unprocessed' = <<>>
    /\ doc_idx' = 0
    /\ UNCHANGED <<chunk_files, formatted, chunk_idx, all_qa_pairs, gen_log, fault,
                   doc_result>>
    /\ UNCHANGED <<chunkerVars, llmVars, textVars>>

\* process_chunk_file
DocNext ==
    \/ LoadChunkFile
    \/ ChunkSkipped
    \/ ChunkMalformed
    \/ \E k \in 0..DefaultMaxRetries, n \in 0..MaxPairs : ChunkGenerated(k, n)
    \/ SaveNothing
    \/ SaveResults
    \/ \E truncated \in BOOLEAN : SaveFails(truncated)

\* process_all_chunks, one run
RunNext ==
    \/ ProbeFails
    \/ FindUnprocessed
    \/ DocNext
    \/ LoopAdvance

\* process_all_chunks, run after run
BatchNext ==
    \/ ProbeFails
    \/ FindUnprocessed
    \/ DocNext
    \/ LoopAdvance
    \/ NewProcess

----------------------------------------------------------------------------
(* ChunkProcessor._clean_text *)

CleanAlphabet == {"a", " ", "\n", "\t", ".", ";"}

TerminalPunctuation == {".", "!", "?", ":", ";"}

EndsWithPeriod(t) == t # <<>> /\ t[Len(t)] = "."

\* text.endswith(('.', '!', '?', ':', ';'))
EndsWithTerminal(t) == t # <<>> /\ t[Len(t)] \in TerminalPunctuation

\* text.replace('\n', ' ').replace('\t', ' ')
ReplaceBreaks(t) == [i \in 1..Len(t) |-> IF t[i] \in {"\n", "\t"} THEN " " ELSE t[i]]

_clean_text(t) ==
    LET joined   == Join(Split(t))
        replaced == ReplaceBreaks(joined)
        ended    == IF EndsWithTerminal(replaced) THEN replaced ELSE Append(replaced, ".")
    IN  Strip(ended)

CleanStart ==
    /\ clean_arg \in SeqsUpTo(CleanAlphabet, MaxCleanLen)
    /\ clean_pc = "call"
    /\ cleaned = <<>>

CleanIdle ==
    /\ clean_arg = <<>>
    /\ clean_pc = "idle"
    /\ cleaned = <<>>

\* _clean_text(text)
CleanText ==
    /\ clean_pc = "call"
    /\ cleaned' = <<_clean_text(clean_arg)>>
    /\ clean_pc' = "done"
    /\ UNCHANGED clean_arg
    /\ UNCHANGED <<chunkerVars, llmVars, batchVars, gateVars, parserVars>>

\* _clean_text applied to its own result
CleanAgain ==
    /\ clean_pc = "done"
    /\ cleaned' = Append(cleaned, _clean_text(cleaned[1]))
    /\ clean_pc' = "again"
    /\ UNCHANGED clean_arg
    /\ UNCHANGED <<chunkerVars, llmVars, batchVars, gateVars, parserVars>>

CleanNext == CleanText \/ CleanAgain

----------------------------------------------------------------------------
(* ChunkProcessor._validate_qa_pair *)

\* len(question) < 15
MinQuestionLen == 15

\* len(answer) < 30
MinAnswerLen == 30

\* len(answer_words) < 8
MinAnswerWords == 8

UpperLetters ==
    <<"A", "B", "C", "D", "E", "F", "G", "H", "I", "J", "K", "L", "M", "N", "O", "P",
      "Q", "R", "S", "T", "U", "V", "W", "X", "Y", "Z">>

LowerLetters ==
    <<"a", "b", "c", "d", "e", "f", "g", "h", "i", "j", "k", "l", "m", "n", "o", "p",
      "q", "r", "s", "t", "u", "v", "w", "x", "y", "z">>

LowerChar(c) ==
    IF \E i \in 1..Len(UpperLetters) : UpperLetters[i] = c
    THEN LowerLetters[CHOOSE i \in 1..Len(UpperLetters) : UpperLetters[i] = c]
    ELSE c

\* str.lower()
Lower(t) == [i \in 1..Len(t) |-> LowerChar(t[i])]

\* sub in t
Contains(t, sub) ==
    \E i \in 0..(Len(t) - Len(sub)) : SubSeq(t, i + 1, i + Len(sub)) = sub

\* placeholders = ['[insert', '[describe', '[explain', 'lorem ipsum', 'example text']
Placeholders ==
    { <<"[", "i", "n", "s", "e", "r", "t">>,
      <<"[", "d", "e", "s", "c", "r", "i", "b", "e">>,
      <<"[", "e", "x", "p", "l", "a", "i", "n">>,
      <<"l", "o", "r", "e", "m", " ", "i", "p", "s", "u", "m">>,
      <<"e", "x", "a", "m", "p", "l", "e", " ", "t", "e", "x", "t">> }

\* question_indicators = ['?', 'how', 'what', 'when', 'where', 'why', 'which',
\*                        'describe', 'explain', 'list', 'identify']
QuestionIndicators ==
    { <<"?">>,
      <<"h", "o", "w">>,
      <<"w", "h", "a", "t">>,
      <<"w", "h", "e", "n">>,
      <<"w", "h", "e", "r", "e">>,
      <<"w", "h", "y">>,
      <<"w", "h", "i", "c", "h">>,
      <<"d", "e", "s", "c", "r", "i", "b", "e">>,
      <<"e", "x", "p", "l", "a", "i", "n">>,
      <<"l", "i", "s", "t">>,
      <<"i", "d", "e", "n", "t", "i", "f", "y">> }

\* any(placeholder in question.lower() or placeholder in answer.lower() ...)
HasPlaceholder(q, a) ==
    \E ph \in Placeholders : Contains(Lower(q), ph) \/ Contains(Lower(a), ph)

HasIndicatorCaseSensitive(q) == \E ind \in QuestionIndicators : Contains(q, ind)

\* any(indicator in question.lower() for indicator in question_indicators)
HasIndicator(q) == \E ind \in QuestionIndicators : Contains(Lower(q), ind)

\* len(unique_words) / len(answer_words) < 0.3, for a non-empty list
TooRepetitive(answer_words) ==
    Cardinality({answer_words[i] : i \in 1..Len(answer_words)}) * 10
        < 3 * Len(answer_words)

_validate_qa_pair(q, a) ==
    IF Len(q) < MinQuestionLen \/ Len(a) < MinAnswerLen THEN FALSE
    ELSE IF HasPlaceholder(q, a) THEN FALSE
    ELSE IF ~HasIndicator(q) THEN FALSE
    ELSE LET answer_words == Split(a)
         IN  IF Len(answer_words) < MinAnswerWords THEN FALSE
             ELSE IF TooRepetitive(answer_words) THEN FALSE
             ELSE TRUE

\* "hi"
QHi ==
    <<"h", "i">>

\* "What tools are used for enumeration?"
QTools ==
    <<"W", "h", "a", "t", " ", "t", "o", "o", "l", "s", " ", "a", "r", "e", " ", "u",
      "s", "e", "d", " ", "f", "o", "r", " ", "e", "n", "u", "m", "e", "r", "a", "t",
      "i", "o", "n", "?">>

\* "Tell me of nmap"
QNoIndicator ==
    <<"T", "e", "l", "l", " ", "m", "e", " ", "o", "f", " ", "n", "m", "a", "p">>

\* "WHAT IS AN NMAP"
QUpper ==
    <<"W", "H", "A", "T", " ", "I", "S", " ", "A", "N", " ", "N", "M", "A", "P">>

\* "What is nmap??"
QShort ==
    <<"W", "h", "a", "t", " ", "i", "s", " ", "n", "m", "a", "p", "?", "?">>

\* "Describe [Insert tool here]"
QPlaceholder ==
    <<"D", "e", "s", "c", "r", "i", "b", "e", " ", "[", "I", "n", "s", "e", "r", "t",
      " ", "t", "o", "o", "l", " ", "h", "e", "r", "e", "]">>

\* "Show the checklist of tools"
QInsideWord ==
    <<"S", "h", "o", "w", " ", "t", "h", "e", " ", "c", "h", "e", "c", "k", "l", "i",
      "s", "t", " ", "o", "f", " ", "t", "o", "o", "l", "s">>

\* "Use lorem ipsum as what?"
QLorem ==
    <<"U", "s", "e", " ", "l", "o", "r", "e", "m", " ", "i", "p", "s", "u", "m", " ",
      "a", "s", " ", "w", "h", "a", "t", "?">>

\* The questions tried, each with what it was written to contain: one of the
\* indicator words (in any case, anywhere), a placeholder marker
QuestionCases ==
    { [text |-> QHi,          indicator |-> FALSE, placeholder |-> FALSE],
      [text |-> QTools,       indicator |-> TRUE,  placeholder |-> FALSE],
      [text |-> QNoIndicator, indicator |-> FALSE, placeholder |-> FALSE],
      [text |-> QUpper,       indicator |-> TRUE,  placeholder |-> FALSE],
      [text |-> QShort,       indicator |-> TRUE,  placeholder |-> FALSE],
      [text |-> QPlaceholder, indicator |-> TRUE,  placeholder |-> TRUE],
      [text |-> QInsideWord,  indicator |-> TRUE,  placeholder |-> FALSE],
      [text |-> QLorem,       indicator |-> TRUE,  placeholder |-> TRUE] }

WordLetters == <<"a", "b", "c", "d", "e", "f", "g", "h", "i", "j">>

\* an answer of n words of w letters each, d of them distinct
Cycle(n, d, w) ==
    [text |-> Join([j \in 1..n |-> Repeat(WordLetters[((j - 1) % d) + 1], w)]),
     words |-> n, distinct |-> d, placeholder |-> FALSE]

\* "This is Example Text and it has more than eight words."
AExample ==
    <<"T", "h", "i", "s", " ", "i", "s", " ", "E", "x", "a", "m", "p", "l", "e", " ",
      "T", "e", "x", "t", " ", "a", "n", "d", " ", "i", "t", " ", "h", "a", "s", " ",
      "m", "o", "r", "e", " ", "t", "h", "a", "n", " ", "e", "i", "g", "h", "t", " ",
      "w", "o", "r", "d", "s", ".">>

\* "Nmap and gobuster are used to find open ports."
ANmap ==
    <<"N", "m", "a", "p", " ", "a", "n", "d", " ", "g", "o", "b", "u", "s", "t", "e",
      "r", " ", "a", "r", "e", " ", "u", "s", "e", "d", " ", "t", "o", " ", "f", "i",
      "n", "d", " ", "o", "p", "e", "n", " ", "p", "o", "r", "t", "s", ".">>

\* The answers tried, each with the number of words and of distinct words it
\* was written with, and whether it holds a placeholder marker
AnswerCases ==
    { Cycle(7, 7, 4), Cycle(8, 8, 4), Cycle(8, 8, 2), Cycle(8, 3, 3), Cycle(8, 2, 4),
      Cycle(10, 3, 3), Cycle(10, 2, 3), Cycle(40, 1, 4),
      [text |-> Join(<<Repeat("a", 3), Repeat("b", 3), Repeat("c", 3), Repeat("d", 3),
                       Repeat("e", 3), Repeat("f", 3), Repeat("g", 2), Repeat("h", 2)>>),
       words |-> 8, distinct |-> 8, placeholder |-> FALSE],
      [text |-> Join(<<Repeat("a", 3), Repeat("b", 3), Repeat("c", 3), Repeat("d", 3),
                       Repeat("e", 3), Repeat("f", 3), Repeat("g", 3), Repeat("h", 2)>>),
       words |-> 8, distinct |-> 8, placeholder |-> FALSE],
      [text |-> AExample, words |-> 11, distinct |-> 11, placeholder |-> TRUE],
      [text |-> ANmap, words |-> 9, distinct |-> 9, placeholder |-> FALSE] }

NoFacts == [indicator |-> FALSE, q_placeholder |-> FALSE, a_placeholder |-> FALSE,
            words |-> 0, distinct |-> 0]

GateStart ==
    /\ \E qc \in QuestionCases, ac \in AnswerCases :
           /\ question = qc.text
           /\ answer = ac.text
           /\ facts = [indicator |-> qc.indicator, q_placeholder |-> qc.placeholder,
                       a_placeholder |-> ac.placeholder, words |-> ac.words,
                       distinct |-> ac.distinct]
    /\ gate_pc = "call"
    /\ gate_result = FALSE

GateIdle ==
    /\ question = <<>>
    /\ answer = <<>>
    /\ facts = NoFacts
    /\ gate_pc = "idle"
    /\ gate_result = FALSE

\* _validate_qa_pair(question, answer)
ValidatePair ==
    /\ gate_pc = "call"
    /\ gate_result' = _validate_qa_pair(question, answer)
    /\ gate_pc' = "done"
    /\ UNCHANGED <<question, answer, facts>>
    /\ UNCHANGED <<chunkerVars, llmVars, batchVars, cleanVars, parserVars>>

GateNext == ValidatePair

----------------------------------------------------------------------------
(* ChunkProcessor.parse_qa_response *)

\* the backtick character (a TLA+ string cannot hold one)
Backtick == "BACKTICK"

RECURSIVE RemoveFences(_)
\* response.replace(three backticks, ''): the text up to the leftmost
\* occurrence, then the same for what follows the occurrence
RemoveFences(t) ==
    LET hits == {i \in 1..(Len(t) - 2) :
                    t[i] = Backtick /\ t[i + 1] = Backtick /\ t[i + 2] = Backtick}
    IN  IF hits = {} THEN t
        ELSE SubSeq(t, 1, MinOf(hits) - 1)
                 \o RemoveFences(SubSeq(t, MinOf(hits) + 3, Len(t)))

MarkerLetterExact(ch, letter) == ch = letter

\* flags=re.IGNORECASE: ch matches the letter of the pattern
MarkerLetter(ch, letter) == LowerChar(ch) = LowerChar(letter)

\* the length of the match of r'\n?X:' that starts at position i of t (1-based),
\* 0 if there is none; the optional line break is taken when it is there
MarkerAt(t, i, letter) ==
    IF i + 2 <= Len(t) /\ t[i] = "\n" /\ MarkerLetter(t[i + 1], letter) /\ t[i + 2] = ":"
    THEN 3
    ELSE IF i + 1 <= Len(t) /\ MarkerLetter(t[i], letter) /\ t[i + 1] = ":"
    THEN 2
    ELSE 0

\* re.search(r'\n?X:', t, flags=re.IGNORECASE): the leftmost match, as the
\* 1-based position of its first character and of the character after it
re_search(t, letter) ==
    LET hits == {i \in 1..Len(t) : MarkerAt(t, i, letter) > 0}
    IN  IF hits = {} THEN [found |-> FALSE, start |-> 0, end |-> 0]
        ELSE [found |-> TRUE, start |-> MinOf(hits),
              end |-> MinOf(hits) + MarkerAt(t, MinOf(hits), letter)]

RECURSIVE re_split(_, _)
\* re.split(r'\n?X:', t, flags=re.IGNORECASE): the text before the leftmost
\* match, then the split of what follows the match
re_split(t, letter) ==
    LET m == re_search(t, letter)
    IN  IF ~m.found THEN <<t>>
        ELSE <<SubSeq(t, 1, m.start - 1)>> \o re_split(SubSeq(t, m.end, Len(t)), letter)

KeepPreamble(parts) == parts

\* for part in parts[1:]
SkipPreamble(parts) == Tail(parts)

\* the body of the loop for one part: the records it appends
ParsePart(p) ==
    LET part == Strip(p)
    IN  IF part = <<>> THEN <<>>
        ELSE LET a_match == re_search(part, "A")
             IN  IF ~a_match.found THEN <<>>
                 ELSE LET q      == Strip(SubSeq(part, 1, a_match.start - 1))
                          a0     == Strip(SubSeq(part, a_match.end, Len(part)))
                          next_q == re_search(a0, "Q")
                          a      == IF next_q.found
                                    THEN Strip(SubSeq(a0, 1, next_q.start - 1))
                                    ELSE a0
                      IN  IF _validate_qa_pair(q, a)
                          THEN <<[question |-> _clean_text(q), answer |-> _clean_text(a)]>>
                          ELSE <<>>

RECURSIVE ParseParts(_)
ParseParts(parts) ==
    IF parts = <<>> THEN <<>> ELSE ParsePart(Head(parts)) \o ParseParts(Tail(parts))

parse_qa_response(r) ==
    ParseParts(SkipPreamble(re_split(Strip(RemoveFences(r)), "Q")))

\* The segments a response is put together from: the question marker as
\* written (qm), the question text, the answer marker as written (am, empty:
\* the segment has none), the answer text, and the record the segment is
\* written to give (none when a field fails the quality gate)
\* "Q: What tools are used for enumeration?\nA: Nmap and gobuster are used to find open ports.\n"
SegGood ==
    [qm |-> <<"Q", ":">>,
     q |->
        <<" ", "W", "h", "a", "t", " ", "t", "o", "o", "l", "s", " ", "a", "r", "e",
          " ", "u", "s", "e", "d", " ", "f", "o", "r", " ", "e", "n", "u", "m", "e",
          "r", "a", "t", "i", "o", "n", "?">>,
     am |-> <<"\n", "A", ":">>,
     a |->
        <<" ", "N", "m", "a", "p", " ", "a", "n", "d", " ", "g", "o", "b", "u", "s",
          "t", "e", "r", " ", "a", "r", "e", " ", "u", "s", "e", "d", " ", "t", "o",
          " ", "f", "i", "n", "d", " ", "o", "p", "e", "n", " ", "p", "o", "r", "t",
          "s", ".", "\n">>,
     record |-> <<[question |->
        <<"W", "h", "a", "t", " ", "t", "o", "o", "l", "s", " ", "a", "r", "e", " ",
          "u", "s", "e", "d", " ", "f", "o", "r", " ", "e", "n", "u", "m", "e", "r",
          "a", "t", "i", "o", "n", "?">>,
       answer |->
        <<"N", "m", "a", "p", " ", "a", "n", "d", " ", "g", "o", "b", "u", "s", "t",
          "e", "r", " ", "a", "r", "e", " ", "u", "s", "e", "d", " ", "t", "o", " ",
          "f", "i", "n", "d", " ", "o", "p", "e", "n", " ", "p", "o", "r", "t", "s",
          ".">>]>>]

\* "Q: foo?\nA: bar baz.\n"
SegFoo ==
    [qm |-> <<"Q", ":">>,
     q |->
        <<" ", "f", "o", "o", "?">>,
     am |-> <<"\n", "A", ":">>,
     a |->
        <<" ", "b", "a", "r", " ", "b", "a", "z", ".", "\n">>,
     record |-> <<>>]

\* "Q: second?\nA: third answer here."
SegSecond ==
    [qm |-> <<"Q", ":">>,
     q |->
        <<" ", "s", "e", "c", "o", "n", "d", "?">>,
     am |-> <<"\n", "A", ":">>,
     a |->
        <<" ", "t", "h", "i", "r", "d", " ", "a", "n", "s", "w", "e", "r", " ", "h",
          "e", "r", "e", ".">>,
     record |-> <<>>]

\* "Q: What is missing from this segment?\n"
SegNoAnswer ==
    [qm |-> <<"Q", ":">>,
     q |->
        <<" ", "W", "h", "a", "t", " ", "i", "s", " ", "m", "i", "s", "s", "i", "n",
          "g", " ", "f", "r", "o", "m", " ", "t", "h", "i", "s", " ", "s", "e", "g",
          "m", "e", "n", "t", "?", "\n">>,
     am |-> <<>>,
     a |->
        <<>>,
     record |-> <<>>]

\* "q:How is  white\tspace\ntreated a:It is collapsed to single blanks and a period is added\n"
SegLoose ==
    [qm |-> <<"q", ":">>,
     q |->
        <<"H", "o", "w", " ", "i", "s", " ", " ", "w", "h", "i", "t", "e", "\t", "s",
          "p", "a", "c", "e", "\n", "t", "r", "e", "a", "t", "e", "d">>,
     am |-> <<" ", "a", ":">>,
     a |->
        <<"I", "t", " ", "i", "s", " ", "c", "o", "l", "l", "a", "p", "s", "e", "d",
          " ", "t", "o", " ", "s", "i", "n", "g", "l", "e", " ", "b", "l", "a", "n",
          "k", "s", " ", "a", "n", "d", " ", "a", " ", "p", "e", "r", "i", "o", "d",
          " ", "i", "s", " ", "a", "d", "d", "e", "d", "\n">>,
     record |-> <<[question |->
        <<"H", "o", "w", " ", "i", "s", " ", "w", "h", "i", "t", "e", " ", "s", "p",
          "a", "c", "e", " ", "t", "r", "e", "a", "t", "e", "d", ".">>,
       answer |->
        <<"I", "t", " ", "i", "s", " ", "c", "o", "l", "l", "a", "p", "s", "e", "d",
          " ", "t", "o", " ", "s", "i", "n", "g", "l", "e", " ", "b", "l", "a", "n",
          "k", "s", " ", "a", "n", "d", " ", "a", " ", "p", "e", "r", "i", "o", "d",
          " ", "i", "s", " ", "a", "d", "d", "e", "d", ".">>]>>]

\* "Q:  \n"
SegEmpty ==
    [qm |-> <<"Q", ":">>,
     q |->
        <<" ", " ", "\n">>,
     am |-> <<>>,
     a |->
        <<>>,
     record |-> <<>>]

\* "\nQ: Which answer marker is the one used? A: The first one is used. A: the rest stays in the answer.\n"
SegTwoAnswers ==
    [qm |-> <<"\n", "Q", ":">>,
     q |->
        <<" ", "W", "h", "i", "c", "h", " ", "a", "n", "s", "w", "e", "r", " ", "m",
          "a", "r", "k", "e", "r", " ", "i", "s", " ", "t", "h", "e", " ", "o", "n",
          "e", " ", "u", "s", "e", "d", "?">>,
     am |-> <<" ", "A", ":">>,
     a |->
        <<" ", "T", "h", "e", " ", "f", "i", "r", "s", "t", " ", "o", "n", "e", " ",
          "i", "s", " ", "u", "s", "e", "d", ".", " ", "A", ":", " ", "t", "h", "e",
          " ", "r", "e", "s", "t", " ", "s", "t", "a", "y", "s", " ", "i", "n", " ",
          "t", "h", "e", " ", "a", "n", "s", "w", "e", "r", ".", "\n">>,
     record |-> <<[question |->
        <<"W", "h", "i", "c", "h", " ", "a", "n", "s", "w", "e", "r", " ", "m", "a",
          "r", "k", "e", "r", " ", "i", "s", " ", "t", "h", "e", " ", "o", "n", "e",
          " ", "u", "s", "e", "d", "?">>,
       answer |->
        <<"T", "h", "e", " ", "f", "i", "r", "s", "t", " ", "o", "n", "e", " ", "i",
          "s", " ", "u", "s", "e", "d", ".", " ", "A", ":", " ", "t", "h", "e", " ",
          "r", "e", "s", "t", " ", "s", "t", "a", "y", "s", " ", "i", "n", " ", "t",
          "h", "e", " ", "a", "n", "s", "w", "e", "r", ".">>]>>]

\* "Q: What      is it?\nA: It  is  up  to  us  to  do  it.\n": both fields pass
\* the length tests only with their runs of blanks
SegPadded ==
    [qm |-> <<"Q", ":">>,
     q |->
        <<" ", "W", "h", "a", "t", " ", " ", " ", " ", " ", " ", "i", "s", " ", "i",
          "t", "?">>,
     am |-> <<"\n", "A", ":">>,
     a |->
        <<" ", "I", "t", " ", " ", "i", "s", " ", " ", "u", "p", " ", " ", "t", "o",
          " ", " ", "u", "s", " ", " ", "t", "o", " ", " ", "d", "o", " ", " ", "i",
          "t", ".", "\n">>,
     record |-> <<[question |->
        <<"W", "h", "a", "t", " ", "i", "s", " ", "i", "t", "?">>,
       answer |->
        <<"I", "t", " ", "i", "s", " ", "u", "p", " ", "t", "o", " ", "u", "s", " ",
          "t", "o", " ", "d", "o", " ", "i", "t", ".">>]>>]

SegmentKinds == {SegGood, SegFoo, SegSecond, SegNoAnswer,
                 SegLoose, SegEmpty, SegTwoAnswers, SegPadded}

\* "Here are the pairs:\n"
PreIntro ==
    <<"H", "e", "r", "e", " ", "a", "r", "e", " ", "t", "h", "e", " ", "p", "a", "i",
      "r", "s", ":", "\n">>

\* three backticks and a line break
PreFence ==
    <<Backtick, Backtick, Backtick, "\n">>

\* "What tools are used for enumeration?\nA: Nmap and gobuster are used to find open ports.\n"
PreUnmarked ==
    <<"W", "h", "a", "t", " ", "t", "o", "o", "l", "s", " ", "a", "r", "e", " ", "u",
      "s", "e", "d", " ", "f", "o", "r", " ", "e", "n", "u", "m", "e", "r", "a", "t",
      "i", "o", "n", "?", "\n", "A", ":", " ", "N", "m", "a", "p", " ", "a", "n",
      "d", " ", "g", "o", "b", "u", "s", "t", "e", "r", " ", "a", "r", "e", " ", "u",
      "s", "e", "d", " ", "t", "o", " ", "f", "i", "n", "d", " ", "o", "p", "e", "n",
      " ", "p", "o", "r", "t", "s", ".", "\n">>

\* the text before the first question marker
Preambles == {<<>>, PreIntro, PreFence, PreUnmarked}

SegmentText(g) == g.qm \o g.q \o g.am \o g.a

RECURSIVE SegmentsText(_)
SegmentsText(gs) ==
    IF gs = <<>> THEN <<>> ELSE SegmentText(Head(gs)) \o SegmentsText(Tail(gs))

\* the response made of preamble pre followed by the segments gs
Render(pre, gs) == pre \o SegmentsText(gs)

ParserStart ==
    /\ response_parts \in [preamble : Preambles,
                            segments : SeqsUpTo(SegmentKinds, MaxSegments)]
    /\ response = Render(response_parts.preamble, response_parts.segments)
    /\ parser_pc = "call"
    /\ parser_result = <<>>

ParserIdle ==
    /\ response = <<>>
    /\ response_parts = [preamble |-> <<>>, segments |-> <<>>]
    /\ parser_pc = "idle"
    /\ parser_result = <<>>

CountsFiltered(s, records) == [s EXCEPT !.quality_filtered = @ + 1]

\* self.stats after parse_qa_response returned records: no statement of
\* parse_qa_response, _validate_qa_pair or _clean_text writes self.stats
\* ('quality_filtered' is initialised and never written)
StatsAfterParse(s, records) == s

\* parse_qa_response(response)
ParseResponse ==
    /\ parser_pc = "call"
    /\ parser_result' = parse_qa_response(response)
    /\ parser_pc' = "done"
    /\ stats' = StatsAfterParse(stats, parser_result')
    /\ UNCHANGED <<response, response_parts>>
    /\ UNCHANGED <<chunk_files, formatted, pc, unprocessed, doc_idx, chunk_idx,
                   all_qa_pairs, run, probe_ok, prev_probe_ok, gen_log, llm_invocations,
                   writes, fault, doc_result, prev_failed>>
    /\ UNCHANGED <<chunkerVars, llmVars, cleanVars, gateVars>>

ParserNext == ParseResponse

TextIdle == CleanIdle /\ GateIdle /\ ParserIdle

----------------------------------------------------------------------------
(* process_chunk_file with the calls it makes, call_llm and                 *)
(* parse_qa_response, as steps of their own                                 *)

\* the texts the backend answers with: two segments that give a record each
\* inside a code fence, one such segment, and two segments that give none
PipeResponses ==
    {Render(PreFence, <<SegGood, SegPadded>>),
     Render(<<>>, <<SegGood>>),
     Render(<<>>, <<SegFoo, SegSecond>>)}

\* what the backend does at one request: the request fails, the reply is too
\* short, or the reply is one of the texts
PipeOutcomes ==
    {[kind |-> "raise", exc |-> "ConnectionError"],
     [kind |-> "body", body |-> "text", text |-> Repeat("x", MinResponseLen)]}
    \cup {[kind |-> "body", body |-> "text", text |-> t] : t \in PipeResponses}

\* a new ChunkProcessor, about to run process_chunk_file on document d1,
\* whose formatted file is absent or unparseable
PipeStart ==
    /\ chunk_files \in {[d \in Docs |-> IF d = "d1" THEN f ELSE [kind |-> "corrupt", chunks |-> <<>>]] :
                            f \in ChunkFiles(MaxBatchChunks) \cup {TwoLongChunks}}
    /\ formatted \in {[d \in Docs |-> IF d = "d1" THEN f ELSE NoFile] :
                            f \in {NoFile, BadFile("unparseable")}}
    /\ stats = FreshStats
    /\ pc = "load"
    /\ unprocessed = <<"d1">>
    /\ doc_idx = 1
    /\ chunk_idx = 0
    /\ all_qa_pairs = <<>>
    /\ run = 1
    /\ probe_ok = TRUE
    /\ prev_probe_ok = FALSE
    /\ gen_log = <<>>
    /\ llm_invocations = 0
    /\ writes = 0
    /\ fault = "none"
    /\ doc_result = "none"
    /\ prev_failed = 0

\* response = self.call_llm(prompt): call_llm is entered
PipeCallLLM ==
    /\ pc = "chunks"
    /\ ~LoopDone(chunk_idx, Len(CurrentChunks))
    /\ ~CurrentChunks[chunk_idx + 1].malformed
    /\ ~SkipsChunk(EntryText(CurrentChunks[chunk_idx + 1]))
    /\ pc' = "call_llm"
    /\ llm_invocations' = llm_invocations + 1
    /\ max_retries' = DefaultMaxRetries
    /\ attempt' = 0
    /\ llm_pc' = "loop"
    /\ llm_calls' = 0
    /\ llm_sleeps' = 0
    /\ llm_history' = <<>>
    /\ llm_result' = <<>>
    /\ UNCHANGED <<formatted, stats, chunk_idx, all_qa_pairs, gen_log, writes, fault,
                   doc_result>>
    /\ UNCHANGED runFrame
    /\ UNCHANGED <<chunkerVars, textVars>>

\* call_llm is over: an exception goes to the except branch; on an empty
\* response, logger.warning and continue; otherwise parse_qa_response is
\* entered with the response
PipeLLMReturns ==
    /\ pc = "call_llm"
    /\ llm_pc \in {"returned", "raised"}
    /\ IF llm_pc = "raised"
       THEN /\ Except("call_llm")
            /\ UNCHANGED <<chunk_idx, gen_log, parserVars>>
       ELSE IF llm_result = <<>>
       THEN /\ gen_log' = Append(gen_log,
                   [chunk |-> chunk_idx, what |-> "no_response", pairs |-> <<>>])
            /\ chunk_idx' = IF AfterNoResponse = "continue"
                            THEN chunk_idx + 1 ELSE Len(CurrentChunks)
            /\ pc' = "chunks"
            /\ UNCHANGED <<stats, fault, doc_result, parserVars>>
       ELSE /\ response' = llm_result
            /\ parser_pc' = "call"
            /\ parser_result' = <<>>
            /\ pc' = "parse"
            /\ UNCHANGED <<stats, fault, doc_result, chunk_idx, gen_log, response_parts>>
    /\ UNCHANGED <<formatted, all_qa_pairs, llm_invocations, writes>>
    /\ UNCHANGED runFrame
    /\ UNCHANGED <<chunkerVars, llmVars, cleanVars, gateVars>>

\* parse_qa_response is over: if qa_pairs: all_qa_pairs.extend(qa_pairs),
\* else logger.warning; the loop goes to the next chunk
PipeCollect ==
    /\ pc = "parse"
    /\ parser_pc = "done"
    /\ all_qa_pairs' = all_qa_pairs \o parser_result
    /\ gen_log' = Append(gen_log,
           [chunk |-> chunk_idx, what |-> "response", pairs |-> parser_result])
    /\ chunk_idx' = chunk_idx + 1
    /\ pc' = "chunks"
    /\ UNCHANGED <<formatted, stats, llm_invocations, writes, fault, doc_result>>
    /\ UNCHANGED runFrame
    /\ UNCHANGED <<chunkerVars, llmVars, textVars>>

PipeNext ==
    \/ LoadChunkFile
    \/ ChunkSkipped
    \/ ChunkMalformed
    \/ PipeCallLLM
    \/ \E o \in PipeOutcomes : LLMAttempt(o)
    \/ LLMExhausted
    \/ PipeLLMReturns
    \/ ParseResponse
    \/ PipeCollect
    \/ SaveNothing
    \/ SaveResults
    \/ \E truncated \in BOOLEAN : SaveFails(truncated)

----------------------------------------------------------------------------
(* Specifications *)

ChunkerInit == ChunkerStart /\ LLMIdle /\ BatchIdle /\ TextIdle

ChunkerNext == ChunkText

SpecChunker == ChunkerInit /\ [][ChunkerNext]_vars

LLMInit == ChunkerIdle /\ LLMStart /\ BatchIdle /\ TextIdle

\* call_llm runs to completion: every requests.post returns or raises within
\* its timeout, so an enabled step is eventually taken
SpecLLM == LLMInit /\ [][LLMNext]_vars /\ WF_vars(LLMNext)

Init == ChunkerIdle /\ LLMIdle /\ BatchStart /\ TextIdle

Next == BatchNext

Spec == Init /\ [][Next]_vars

DocInit == ChunkerIdle /\ LLMIdle /\ DocStart /\ TextIdle

SpecDoc == DocInit /\ [][DocNext]_vars

RunInit == ChunkerIdle /\ LLMIdle /\ RunStart /\ TextIdle

\* one run of process_all_chunks, which keeps running until it returns: every
\* call it makes returns (requests time out, call_llm ends after its retries)
SpecRun == RunInit /\ [][RunNext]_vars /\ WF_vars(RunNext)

\* run after run of process_all_chunks over the files of RunStart
SpecRerun == RunInit /\ [][BatchNext]_vars

CleanInit == ChunkerIdle /\ LLMIdle /\ BatchIdle /\ CleanStart /\ GateIdle /\ ParserIdle

SpecClean == CleanInit /\ [][CleanNext]_vars

GateInit == ChunkerIdle /\ LLMIdle /\ BatchIdle /\ CleanIdle /\ GateStart /\ ParserIdle

SpecGate == GateInit /\ [][GateNext]_vars

ParserInit == ChunkerIdle /\ LLMIdle /\ BatchIdle /\ CleanIdle /\ GateIdle /\ ParserStart

SpecParser == ParserInit /\ [][ParserNext]_vars

PipeInit == ChunkerIdle /\ LLMIdle /\ PipeStart /\ TextIdle

SpecPipe == PipeInit /\ [][PipeNext]_vars

----------------------------------------------------------------------------
(* Properties of chunk_text *)

ChunkerDone == chunker_pc = "done"

ChunkerWords == Split(text)

CeilDiv(a, b) == (a + b - 1) \div b

\* the word window of a returned chunk
Window(c) == Split(c.text)

DropFirst(s, n) == SubSeq(s, n + 1, Len(s))

LastN(s, n) == SubSeq(s, Len(s) - n + 1, Len(s))

RECURSIVE Flatten(_)
Flatten(ss) == IF ss = <<>> THEN <<>> ELSE ss[1] \o Flatten(Tail(ss))

\* chunk 0 in full, every later chunk without its first overlap words
NonOverlapSpans(chunks, overlap) ==
    [k \in 1..Len(chunks) |->
        IF k = 1 THEN Window(chunks[k]) ELSE DropFirst(Window(chunks[k]), overlap)]

\* C1: with maxWords > overlapWords >= 0 the call returns
\* ceil((t - overlapWords) / (maxWords - overlapWords)) chunks when the text
\* has t > maxWords words, and exactly 1 chunk when t <= maxWords.
C1_ChunkCount ==
    (ChunkerDone /\ max_chunk_size > overlap_size) =>
        /\ chunker_result.status = "returned"
        /\ Len(chunker_result.chunks) =
               IF Len(ChunkerWords) > max_chunk_size
               THEN CeilDiv(Len(ChunkerWords) - overlap_size,
                            max_chunk_size - overlap_size)
               ELSE 1

\* C2: every configuration with overlapWords >= maxWords is rejected as an
\* error, for every text: no chunk list is returned for it.
C2_OverlapRejected ==
    (ChunkerDone /\ overlap_size >= max_chunk_size) =>
        chunker_result.status = "ValueError"

\* C3: with maxWords > overlapWords, chunk 0's window followed by every later
\* chunk's window without its first overlapWords words is exactly the word
\* sequence of the text.
C3_Reconstructs ==
    (ChunkerDone /\ max_chunk_size > overlap_size) =>
        /\ chunker_result.status = "returned"
        /\ Flatten(NonOverlapSpans(chunker_result.chunks, overlap_size))
               = ChunkerWords

C3_Witness ==
    /\ ChunkerDone
    /\ max_chunk_size > overlap_size
    /\ overlap_size >= 1
    /\ Len(chunker_result.chunks) >= 3
    /\ \E i, j \in 1..Len(ChunkerWords) : ChunkerWords[i] # ChunkerWords[j]

\* C4: in a multi-chunk result (maxWords > overlapWords) consecutive chunks
\* k and k+1 overlap by exactly overlapWords words (the last overlapWords words
\* of k are the first overlapWords words of k+1) and k+1 has at least one
\* word that k does not cover.
C4_ExactOverlap ==
    (/\ ChunkerDone
     /\ max_chunk_size > overlap_size
     /\ Len(chunker_result.chunks) >= 2) =>
        \A k \in 1..(Len(chunker_result.chunks) - 1) :
            LET a == Window(chunker_result.chunks[k])
                b == Window(chunker_result.chunks[k + 1])
            IN  /\ Len(a) >= overlap_size
                /\ Len(b) > overlap_size
                /\ LastN(a, overlap_size) = SubSeq(b, 1, overlap_size)

\* C5: a text of at most maxWords words (the empty text included) gives
\* exactly one chunk holding the whole text, chunk_id 0, total_chunks 1, and
\* neither overlap flag true, whatever overlapWords is.
C5_SingleChunk ==
    (ChunkerDone /\ Len(ChunkerWords) <= max_chunk_size) =>
        /\ chunker_result.status = "returned"
        /\ Len(chunker_result.chunks) = 1
        /\ LET c == chunker_result.chunks[1]
           IN  /\ c.text = text
               /\ c.chunk_id = 0
               /\ c.total_chunks = 1
               /\ "overlap_start" \in DOMAIN c => ~c.overlap_start
               /\ "overlap_end" \in DOMAIN c => ~c.overlap_end

C5_Witness ==
    /\ ChunkerDone
    /\ Len(ChunkerWords) = max_chunk_size
    /\ Len(ChunkerWords) >= 2
    /\ overlap_size >= max_chunk_size
    /\ text # Join(ChunkerWords)
    /\ Len(chunker_result.chunks) = 1

\* C19: in every result of two or more chunks, overlap_start is true for every
\* chunk but the first, overlap_end is true exactly for the chunks whose window
\* ends before the last word of the text, chunk_id is the position in the list
\* and total_chunks is the length of the list.
C19_ChunkFlags ==
    (ChunkerDone /\ Len(chunker_result.chunks) >= 2) =>
        \A k \in 1..Len(chunker_result.chunks) :
            LET c     == chunker_result.chunks[k]
                start == (k - 1) * (max_chunk_size - overlap_size)
                last  == start + Len(Window(c))
            IN  /\ c.chunk_id = k - 1
                /\ c.total_chunks = Len(chunker_result.chunks)
                /\ c.overlap_start <=> k > 1
                /\ c.overlap_end <=> last < Len(ChunkerWords)
                /\ Window(c) = SubSeq(ChunkerWords, start + 1, last)

C19_Witness ==
    /\ ChunkerDone
    /\ Len(chunker_result.chunks) = 4
    /\ chunker_result.chunks[1].overlap_end /\ ~chunker_result.chunks[1].overlap_start
    /\ chunker_result.chunks[2].overlap_end /\ chunker_result.chunks[2].overlap_start
    /\ ~chunker_result.chunks[3].overlap_end
    /\ ~chunker_result.chunks[4].overlap_end /\ chunker_result.chunks[4].overlap_start
    /\ chunker_result.chunks[4].total_chunks = 4

----------------------------------------------------------------------------
(* Properties of call_llm *)

LLMReturned == llm_pc = "returned"

\* an attempt that gives no usable text: transport failure or timeout,
\* non-success status, malformed body, empty or too-short text after trimming
FailedAttempt(o) ==
    \/ o.kind = "raise"
    \/ o.kind = "status" /\ o.code # 200
    \/ o.kind = "body" /\ o.body # "text"
    \/ o.kind = "body" /\ o.body = "text" /\ Len(Strip(o.text)) <= MinResponseLen

AllFailed(h) == \A i \in 1..Len(h) : FailedAttempt(h[i])

C9_Safety ==
    /\ llm_calls <= max_retries
    /\ llm_calls = Len(llm_history)
    /\ (LLMReturned /\ llm_result = <<>>) =>
           /\ llm_calls = max_retries
           /\ AllFailed(llm_history)
    /\ (LLMReturned /\ llm_result # <<>>) =>
           /\ llm_history # <<>>
           /\ ~FailedAttempt(llm_history[Len(llm_history)])
           /\ AllFailed(SubSeq(llm_history, 1, Len(llm_history) - 1))
           /\ llm_result = Strip(llm_history[Len(llm_history)].text)

\* C9: for every maxRetries >= 0 and every sequence of backend outcomes,
\* call_llm issues at most maxRetries network calls and then terminates; it
\* returns the failure value only after exactly maxRetries failed attempts, and
\* returns the text at the first successful attempt with no further call.
C9_BoundedRetries ==
    /\ []C9_Safety
    /\ [][LLMReturned => llm_calls' = llm_calls]_vars
    /\ <>LLMReturned

C9_Witness ==
    /\ LLMReturned
    /\ max_retries = 3
    /\ llm_calls = 2
    /\ llm_result # <<>>
    /\ llm_history[1].kind = "raise"

\* C10: call_llm never lets an error reach its caller: a transport failure or
\* timeout, a non-success status, a malformed body and an empty or too-short
\* text are each a failed attempt that is retried; after exhaustion each gives
\* the empty string; every other return value is longer than 50 characters.
C10_NoErrorEscapes ==
    /\ llm_pc # "raised"
    /\ llm_pc = "loop" => (attempt = Len(llm_history) /\ AllFailed(llm_history))
    /\ \A i \in 1..Len(llm_history) :
           FailedAttempt(llm_history[i]) =>
               \/ i < Len(llm_history)
               \/ llm_pc = "loop"
               \/ LLMReturned /\ i = max_retries /\ llm_result = <<>>
    /\ LLMReturned => (llm_result = <<>> \/ Len(llm_result) > MinResponseLen)

C10_Witness ==
    /\ LLMReturned
    /\ llm_result = <<>>
    /\ Len(llm_history) = 3
    /\ llm_history[1].kind = "raise"
    /\ llm_history[2].kind = "body" /\ llm_history[2].body = "not_json"
    /\ llm_history[3].kind = "body" /\ llm_history[3].body = "text"
    /\ Len(llm_history[3].text) > MinResponseLen

----------------------------------------------------------------------------
(* Properties of the batch coordinator *)

\* a persisted output that marks its document as processed
Processed(f) == f.kind = "object" /\ f.has_qa_pairs /\ Len(f.qa_pairs) >= 1

Range(q) == {q[i] : i \in DOMAIN q}

\* this run's probe passed, and so did the previous run's
SecondRunProbesOk == run >= 2 /\ prev_probe_ok /\ probe_ok

\* C6: a second run over unchanged chunk files, backend reachable in both
\* runs, has already_processed equal to the number of chunk files, calls
\* call_llm zero times and changes no formatted file, whatever the first run
\* did to each document.
C6_SecondRunIdle ==
    SecondRunProbesOk =>
        /\ stats.already_processed = Cardinality(Docs)
        /\ llm_invocations = 0
        /\ writes = 0

\* C6 as amended: the same, for a second run whose first run counted no
\* document as failed.
C6_SecondRunIdleAfterCleanRun ==
    (SecondRunProbesOk /\ prev_failed = 0) =>
        /\ stats.already_processed = Cardinality(Docs)
        /\ llm_invocations = 0
        /\ writes = 0

C6_Witness ==
    /\ SecondRunProbesOk
    /\ prev_failed = 0
    /\ pc = "done"
    /\ stats.already_processed = Cardinality(Docs)
    /\ \E d \in Docs : \E i \in DOMAIN formatted[d].qa_pairs :
           formatted[d].qa_pairs[i].n >= 1

\* find_unprocessed_chunks has just returned in this run
AfterFind ==
    /\ probe_ok
    /\ \/ pc = "load" /\ doc_idx = 1
       \/ pc = "done" /\ unprocessed = <<>>

\* C7: find_unprocessed_chunks leaves a document out of the work list exactly
\* when its formatted file exists, parses and holds a qa_pairs list with at
\* least one element; every other document (file missing, unparseable, without
\* qa_pairs, with an empty list) is in the list and not in already_processed.
C7_WorkList ==
    AfterFind =>
        /\ \A d \in Docs : d \in Range(unprocessed) <=> ~Processed(formatted[d])
        /\ Len(unprocessed) = Cardinality(Range(unprocessed))
        /\ stats.already_processed = Cardinality({d \in Docs : Processed(formatted[d])})
        /\ stats.chunks_found = Cardinality(Docs)

C7_Witness ==
    /\ AfterFind
    /\ pc = "load"
    /\ formatted["d1"] = ObjectFile(TRUE, <<>>)
    /\ Processed(formatted["d2"])
    /\ unprocessed = <<"d1">>
    /\ stats.already_processed = 1

LogPairs(log) == Flatten([i \in 1..Len(log) |-> log[i].pairs])

\* the chunk loop has visited the chunks 0 .. chunk_idx-1 in order, skipped
\* the short ones, sent every other one, and kept every accepted pair
ChunkLoopKeepsGoing ==
    /\ Len(gen_log) = chunk_idx
    /\ \A i \in 1..Len(gen_log) :
           /\ gen_log[i].chunk = i - 1
           /\ ~CurrentChunks[i].malformed
           /\ gen_log[i].what = "skipped" <=> CurrentChunks[i].body < MinChunkTextLen
           /\ gen_log[i].what \in {"no_response", "response"}
                  <=> CurrentChunks[i].body >= MinChunkTextLen
    /\ all_qa_pairs = LogPairs(gen_log)

ProbeFailed == run >= 1 /\ pc # "probe" /\ ~probe_ok

\* C14: when the liveness probe fails, process_all_chunks returns at once: no
\* work list is built, no document is processed, call_llm is not invoked, no
\* formatted file is written, and every statistic keeps its initial value.
C14_ProbeAbort ==
    ProbeFailed =>
        /\ pc = "done"
        /\ unprocessed = <<>>
        /\ doc_idx = 0
        /\ llm_invocations = 0
        /\ writes = 0
        /\ stats = FreshStats

C14_Witness ==
    /\ ProbeFailed
    /\ run = 2
    /\ prev_probe_ok
    /\ prev_failed >= 1
    /\ \E d \in Docs : Processed(formatted[d])
    /\ stats = FreshStats

\* the chunk loop of the document ran to its end
ChunkLoopCompleted == pc = "returned" /\ fault \notin {"chunk_file", "chunk_entry", "call_llm"}

\* C15: after the chunk loop, a non-empty record list is persisted and counted
\* in successfully_processed (+1, failed unchanged); an empty one writes
\* nothing and is counted in failed (+1, successfully_processed unchanged).
C15_PersistedOrFailed ==
    ChunkLoopCompleted =>
        IF all_qa_pairs # <<>>
        THEN /\ formatted[CurrentDoc] = ObjectFile(TRUE, all_qa_pairs)
             /\ stats.successfully_processed = 1
             /\ stats.failed = 0
        ELSE /\ writes = 0
             /\ stats.failed = 1
             /\ stats.successfully_processed = 0

\* C15 as amended: the same when writing the output raises no error; when
\* open or json.dump raises, the document is counted in failed (+1) and not in
\* successfully_processed. Either way the document ends in exactly one of the
\* two counters.
C15_PersistedOrFailedUnlessWriteFails ==
    ChunkLoopCompleted =>
        /\ (all_qa_pairs # <<>> /\ fault = "none") =>
               /\ formatted[CurrentDoc] = ObjectFile(TRUE, all_qa_pairs)
               /\ writes = 1
               /\ stats.successfully_processed = 1
               /\ stats.failed = 0
               /\ doc_result = "True"
        /\ fault \in {"write_open", "write_dump"} =>
               /\ all_qa_pairs # <<>>
               /\ stats.successfully_processed = 0
               /\ stats.failed = 1
               /\ doc_result = "False"
               /\ fault = "write_open" => writes = 0
               /\ fault = "write_dump" => ~Processed(formatted[CurrentDoc])
        /\ all_qa_pairs = <<>> =>
               /\ fault = "none"
               /\ writes = 0
               /\ stats.failed = 1
               /\ stats.successfully_processed = 0
               /\ doc_result = "False"
        /\ stats.successfully_processed + stats.failed = 1

C15_Witness ==
    /\ ChunkLoopCompleted
    /\ fault = "none"
    /\ Len(all_qa_pairs) = 2
    /\ formatted[CurrentDoc].qa_pairs = all_qa_pairs
    /\ stats.successfully_processed = 1
    /\ stats.failed = 0

\* C16: a run whose probe passes ends, having entered process_chunk_file for
\* the documents of the work list one after the other in list order, each
\* once; an unreadable chunk file, a malformed chunk entry or a failed write
\* is caught inside process_chunk_file, adds 1 to failed, and the loop goes
\* on with the next document; no exception leaves process_chunk_file.
C16_ForwardProgress ==
    /\ [](pc # "raised")
    /\ []((pc = "returned" /\ fault # "none") => doc_result = "False")
    /\ [][fault' # fault /\ fault' # "none" =>
             stats'.failed = stats.failed + 1 /\ pc' = "returned"]_vars
    /\ [][pc' = "load" => doc_idx' = doc_idx + 1]_vars
    /\ [][doc_idx' # doc_idx => pc' \in {"load", "done"}]_vars
    /\ [][pc = "returned" =>
             pc' = IF doc_idx < Len(unprocessed) THEN "load" ELSE "done"]_vars
    /\ [](pc \in {"load", "chunks", "returned"} => doc_idx \in 1..Len(unprocessed))
    /\ []((pc = "done" /\ probe_ok) =>
             /\ doc_idx = Len(unprocessed)
             /\ stats.successfully_processed + stats.failed = Len(unprocessed))
    /\ <>(pc = "done")

C16_Witness ==
    /\ pc = "done"
    /\ probe_ok
    /\ Len(unprocessed) = 2
    /\ chunk_files[unprocessed[1]].kind = "corrupt"
    /\ Processed(formatted[unprocessed[2]])
    /\ stats.failed = 1
    /\ stats.successfully_processed = 1

\* the chunks visited so far for which call_llm was invoked
SentChunks == {i \in 1..Len(gen_log) : gen_log[i].what # "skipped"}

AllSkipped == gen_log # <<>> /\ SentChunks = {}

\* a chunk is skipped exactly when its trimmed text is under 50 characters,
\* and call_llm is invoked for the other chunks only
SkippedWithoutCall ==
    /\ \A i \in 1..Len(gen_log) :
           gen_log[i].what = "skipped" <=> Len(Strip(EntryText(CurrentChunks[i]))) < 50
    /\ llm_invocations = Cardinality(SentChunks)

C18_AllOrNothing ==
    /\ [](writes <= 1)
    /\ [][(formatted' # formatted \/ writes' # writes) =>
             /\ pc = "chunks"
             /\ Len(gen_log) = Len(CurrentChunks)
             /\ writes = 0 /\ writes' = 1]_vars
    /\ []((pc = "returned" /\ doc_result = "True") =>
             /\ formatted[CurrentDoc].qa_pairs = LogPairs(gen_log)
             /\ \A i, j \in 1..Len(all_qa_pairs) :
                    i <= j => all_qa_pairs[i].chunk <= all_qa_pairs[j].chunk)
    /\ []((pc = "returned" /\ fault \in {"chunk_file", "chunk_entry", "call_llm"}) =>
             writes = 0)

C18_Witness ==
    /\ pc = "returned"
    /\ fault = "chunk_entry"
    /\ all_qa_pairs # <<>>
    /\ writes = 0
    /\ formatted[CurrentDoc] = NoFile

----------------------------------------------------------------------------
(* Properties of _clean_text *)

CleanDone == clean_pc \in {"done", "again"}

\* the last character of t that is not whitespace is terminal punctuation
EndsInPunctuation(t) ==
    \E i \in 1..Len(t) :
        /\ t[i] \in {".", "!", "?", ":", ";"}
        /\ \A j \in (i + 1)..Len(t) : t[j] \in Whitespace

\* C20: the result of _clean_text has no line break or tab, no two spaces in
\* a row, no whitespace at either end, and ends in one of . ! ? : ; where the
\* period is added exactly when the collapsed text does not end in one of them;
\* cleaning the result again gives the result.
C20_CleanText ==
    CleanDone =>
        LET y == cleaned[1]
        IN  /\ \A i \in 1..Len(y) : y[i] \notin {"\n", "\t"}
            /\ \A i \in 1..(Len(y) - 1) : ~(y[i] = " " /\ y[i + 1] = " ")
            /\ y # <<>>
            /\ y[1] \notin Whitespace
            /\ y[Len(y)] \in {".", "!", "?", ":", ";"}
            /\ y = IF EndsInPunctuation(clean_arg)
                   THEN Join(Split(clean_arg))
                   ELSE Join(Split(clean_arg)) \o <<".">>
            /\ clean_pc = "again" => cleaned[2] = cleaned[1]

C20_Witness ==
    /\ clean_pc = "again"
    /\ clean_arg = <<"a", "\t", "\n", "a">>
    /\ cleaned[1] = <<"a", " ", "a", ".">>
    /\ cleaned[2] = cleaned[1]

----------------------------------------------------------------------------
(* Properties of _validate_qa_pair *)

GateDone == gate_pc = "done"

\* C13: the pair is accepted exactly when none of the five rules fires:
\* question under 15 or answer under 30 characters; a placeholder marker in
\* either field; no indicator word in the question (case-insensitive
\* substring); fewer than 8 words in the answer; distinct / total words of the
\* answer below 0.3. The question "hi" is rejected, and so is one word
\* repeated 40 times although it is long enough.
C13_QualityGate ==
    GateDone =>
        /\ gate_result <=>
               ~ \/ Len(question) < 15 \/ Len(answer) < 30
                 \/ facts.q_placeholder \/ facts.a_placeholder
                 \/ ~facts.indicator
                 \/ facts.words < 8
                 \/ facts.distinct * 10 < 3 * facts.words
        /\ question = QHi => ~gate_result
        /\ (facts.words = 40 /\ facts.distinct = 1) =>
               (Len(answer) >= 30 /\ ~gate_result)

C13_Witness ==
    /\ GateDone
    /\ question = QUpper
    /\ facts.words = 10 /\ facts.distinct = 3
    /\ gate_result

----------------------------------------------------------------------------
(* Properties of parse_qa_response *)

ParserDone == parser_pc = "done"

\* "Q: foo?\nA: bar baz.\nQ: second?\nA: third answer here."
ExampleResponse == Render(<<>>, <<SegFoo, SegSecond>>)

ExampleRecords ==
    <<[question |-> <<"f", "o", "o", "?">>,
       answer |-> <<"b", "a", "r", " ", "b", "a", "z", ".">>],
      [question |-> <<"s", "e", "c", "o", "n", "d", "?">>,
       answer |->
         <<"t", "h", "i", "r", "d", " ", "a", "n", "s", "w", "e", "r", " ", "h", "e", "r", "e", ".">>]>>

HasAnswerMarker(g) == g.am # <<>>

\* the segments with a question marker and an answer marker
WellFormed(gs) == SelectSeq(gs, HasAnswerMarker)

RECURSIVE Records(_)
\* the records the segments were written to give, in order
Records(gs) == IF gs = <<>> THEN <<>> ELSE Head(gs).record \o Records(Tail(gs))

C12_DiscardsMalformed ==
    ParserDone =>
        /\ parser_result =
               parse_qa_response(Render(<<>>, WellFormed(response_parts.segments)))
        /\ Len(parser_result) <= Len(WellFormed(response_parts.segments))

C12_Witness ==
    /\ ParserDone
    /\ response_parts.preamble = PreUnmarked
    /\ response_parts.segments = <<SegNoAnswer, SegGood>>
    /\ Len(parser_result) = 1

\* C24: every record parse_qa_response returns has, as stored, a question of
\* at least 15 characters and an answer of at least 30 characters.
C24_StoredLengths ==
    ParserDone =>
        \A i \in 1..Len(parser_result) :
            /\ Len(parser_result[i].question) >= MinQuestionLen
            /\ Len(parser_result[i].answer) >= MinAnswerLen

----------------------------------------------------------------------------
(* Properties of the run statistics *)

\* the documents whose formatted file was written in this run: they were on
\* the work list, so their file was no complete output when the run began
WrittenThisRun == {d \in Range(unprocessed) : Processed(formatted[d])}

RECURSIVE PairsIn(_)
\* the number of records in the formatted files of the documents in S
PairsIn(S) ==
    IF S = {} THEN 0
    ELSE LET d == CHOOSE x \in S : TRUE
         IN  Len(formatted[d].qa_pairs) + PairsIn(S \ {d})

\* the documents of the work list process_chunk_file has returned for
DocsReturned == IF pc \in {"returned", "done"} THEN doc_idx ELSE doc_idx - 1

Accounted == stats.already_processed + stats.successfully_processed + stats.failed

WrittenByProgram(f) ==
    /\ f.kind = "object"
    /\ f.has_qa_pairs
    /\ \E i \in DOMAIN f.qa_pairs : f.qa_pairs[i].n >= 1

\* C23: a formatted file written by process_chunk_file has a non-empty
\* qa_pairs list and a stats.qa_pairs_generated equal to its length, and the
\* document is counted in successfully_processed exactly then; such a file is
\* not written again, and in every later run find_unprocessed_chunks keeps the
\* document off the work list and counts it in already_processed.
C23_OutputsStayProcessed ==
    /\ [][\A d \in Docs : formatted'[d] # formatted[d] =>
             /\ pc = "chunks"
             /\ d = CurrentDoc
             /\ \/ /\ fault' = "write_dump"
                   /\ formatted'[d] = BadFile("unparseable")
                   /\ stats'.successfully_processed = stats.successfully_processed
                \/ /\ formatted'[d].kind = "object"
                   /\ formatted'[d].has_qa_pairs
                   /\ formatted'[d].qa_pairs # <<>>
                   /\ formatted'[d].qa_pairs_generated = Len(formatted'[d].qa_pairs)
                   /\ stats'.successfully_processed = stats.successfully_processed + 1]_vars
    /\ [][stats'.successfully_processed = stats.successfully_processed + 1 =>
             /\ formatted'[CurrentDoc] # formatted[CurrentDoc]
             /\ WrittenByProgram(formatted'[CurrentDoc])]_vars
    /\ [][\A d \in Docs : WrittenByProgram(formatted[d]) =>
             formatted'[d] = formatted[d]]_vars
    /\ [](\A d \in Docs : WrittenByProgram(formatted[d]) =>
             /\ Processed(formatted[d])
             /\ formatted[d].qa_pairs_generated = Len(formatted[d].qa_pairs))
    /\ []((run >= 2 /\ AfterFind) =>
             /\ \A d \in Docs : WrittenByProgram(formatted[d]) =>
                    d \notin Range(unprocessed)
             /\ stats.already_processed >=
                    Cardinality({d \in Docs : WrittenByProgram(formatted[d])}))

C23_Witness ==
    /\ run = 2
    /\ AfterFind
    /\ prev_failed = 1
    /\ pc = "load"
    /\ stats.already_processed = 1
    /\ \E d \in Docs : WrittenByProgram(formatted[d]) /\ d \notin Range(unprocessed)

----------------------------------------------------------------------------
(* Properties of the calls process_chunk_file makes *)

\* call_llm is running
InCallLLM == pc = "call_llm" /\ llm_pc = "loop"

\* parse_qa_response is running, and inside it _validate_qa_pair and
\* _clean_text
InParse == pc = "parse" /\ parser_pc = "call"

\* C21: call_llm, parse_qa_response, _validate_qa_pair and _clean_text leave
\* every statistics counter and every chunk file and formatted file as they
\* were, whether they succeed or fail; the counters and the files change only
\* in steps of process_chunk_file itself.
C21_HelpersKeepFrame ==
    /\ [][(InCallLLM \/ InParse) => UNCHANGED <<stats, formatted, chunk_files>>]_vars
    /\ [][(stats' # stats \/ formatted' # formatted) =>
             /\ ~InCallLLM
             /\ ~InParse
             /\ pc \in {"load", "chunks", "call_llm"}
             /\ pc' = "returned"]_vars
    /\ [](pc \in {"call_llm", "parse"} => stats = FreshStats /\ writes = 0)

C21_Witness ==
    /\ pc = "parse"
    /\ parser_pc = "done"
    /\ chunk_idx = 1
    /\ Len(llm_history) = 3
    /\ llm_history[1].kind = "raise"
    /\ parser_result # <<>>
    /\ Len(all_qa_pairs) = 2
    /\ stats = FreshStats
    /\ formatted["d1"] = BadFile("unparseable")

====
